---- MODULE Spec2Model ----
(***************************************************************************)
(* otpshka: HOTP (src/src/hotp.rs) and TOTP (src/src/totp.rs).             *)
(*                                                                         *)
(* Numbers keep the width the code gives them.  A u64 (counter, time) is   *)
(* its 8 big-endian bytes, the form Hotp::sign feeds to the HMAC.  A u32   *)
(* that may exceed 2^31 - 1 (a parsed token, 10^digits) is a pair of       *)
(* 16-bit limbs <<hi, lo>>.  A token and a buffer are sequences of bytes.  *)
(* The HMAC primitive (ring) is outside the repository: a key holds an     *)
(* arbitrary function from counters to signatures, chosen when the key is  *)
(* made.  The build is debug (debug_assert! and overflow checks on) or     *)
(* release (both off, integer arithmetic wraps).                           *)
(***************************************************************************)
EXTENDS Integers, Sequences, FiniteSets, TLC

VARIABLES build, hotp, totp, last

vars == <<build, hotp, totp, last>>

(***************************** bounds **************************************)
\* Longest caller buffer / token prefix length tried (digits 0..MaxLen).
MaxLen == 11
\* Largest skew a caller sets.
MaxSkew == 2

Builds == {"debug", "release"}
Algorithms == {"SHA1", "SHA256", "SHA512"}

\* The keyed functions tried: the signature pattern of each counter class.
Seeds == {0, 1, 2, 3}
Classes == {0, 1, 2}
PRFs == {<<0, 1, 2>>, <<3, 2, 0>>, <<2, 3, 3>>, <<1, 1, 1>>}

\* A byte of text is a one-character string; NUL is the zero byte of a fresh buffer.
DigitChars == <<"0", "1", "2", "3", "4", "5", "6", "7", "8", "9">>
IsDigit(c) == \E i \in 1..10 : DigitChars[i] = c
DigitVal(c) == (CHOOSE i \in 1..10 : DigitChars[i] = c) - 1
NUL == "NUL"

None == [none |-> TRUE]

(************************* u64 as 8 big-endian bytes ***********************)
\* u64::to_be_bytes of a small number (n < 2^31).
U64(n) == <<0, 0, 0, 0, n \div 16777216, (n \div 65536) % 256, (n \div 256) % 256, n % 256>>

U64Max == <<255, 255, 255, 255, 255, 255, 255, 255>>

RECURSIVE AddAt(_, _, _)
AddAt(a, i, c) ==
    IF i = 0 THEN [val |-> a, over |-> c > 0]
    ELSE LET s == a[i] + c
         IN  AddAt([a EXCEPT ![i] = s % 256], i - 1, s \div 256)

\* a + k in u64: the wrapped sum and whether it overflowed.
AddU64(a, k) == AddAt(a, 8, k)

RECURSIVE SubAt(_, _, _)
SubAt(a, i, b) ==
    IF i = 0 THEN [val |-> a, over |-> b > 0]
    ELSE LET s == a[i] - b
         IN  IF s >= 0 THEN SubAt([a EXCEPT ![i] = s], i - 1, 0)
             ELSE SubAt([a EXCEPT ![i] = s + 256], i - 1, 1)

\* a - k in u64 (k <= 255): the wrapped difference and whether it underflowed.
SubU64(a, k) == SubAt(a, 8, k)

RECURSIVE DivAt(_, _, _, _)
DivAt(a, w, i, rem) ==
    IF i > 8 THEN <<>>
    ELSE LET cur == rem * 256 + a[i]
         IN  <<cur \div w>> \o DivAt(a, w, i + 1, cur % w)

\* a / w in u64, w > 0 (long division, byte by byte).
DivU64(a, w) == DivAt(a, w, 1, 0)

RECURSIVE ModAt(_, _, _, _)
ModAt(a, n, i, rem) ==
    IF i > 8 THEN rem ELSE ModAt(a, n, i + 1, (rem * 256 + a[i]) % n)

ModU64(a, n) == ModAt(a, n, 1, 0)

RECURSIVE LeAt(_, _, _)
LeAt(a, b, i) ==
    IF i > 8 THEN TRUE
    ELSE IF a[i] < b[i] THEN TRUE
    ELSE IF a[i] > b[i] THEN FALSE
    ELSE LeAt(a, b, i + 1)

\* a <= b in u64.
LeU64(a, b) == LeAt(a, b, 1)

(************************* u32 as two 16-bit limbs *************************)
Limbs(n) == <<n \div 65536, n % 65536>>

\* (v * 10 + d) in u32: the wrapped value and whether it overflowed.
MulAdd10(v, d) ==
    LET lo == v[2] * 10 + d
        hi == v[1] * 10 + lo \div 65536
    IN  [val |-> <<hi % 65536, lo % 65536>>, over |-> hi >= 65536]

RECURSIVE PowLoop(_, _, _)
PowLoop(d, v, over) ==
    IF d = 0 THEN [val |-> v, over |-> over]
    ELSE LET m == MulAdd10(v, 0)
         IN  PowLoop(d - 1, m.val, over \/ m.over)

\* 10u32.pow(d): the wrapped value and whether the multiplication overflowed.
Pow10(d) == PowLoop(d, <<0, 1>>, FALSE)

\* n % p for n < 2^31 and a non-zero u32 p.
RemU32(n, p) == IF p[1] >= 32768 THEN n ELSE n % (p[1] * 65536 + p[2])

RECURSIVE ToDec(_)
\* Display of a u32: its decimal digits, no padding.
ToDec(n) == IF n < 10 THEN <<DigitChars[n + 1]>> ELSE ToDec(n \div 10) \o <<DigitChars[(n % 10) + 1]>>

(****************************** the HMAC ***********************************)
SigLen(alg) == IF alg = "SHA1" THEN 20 ELSE IF alg = "SHA256" THEN 32 ELSE 64

\* Byte i (1-based) of the signature pattern `seed`.
SigByte(seed, i) ==
    IF seed = 0 THEN 255
    ELSE IF seed = 1 THEN 0
    ELSE IF seed = 2 THEN ((i - 1) * 37 + 11) % 256
    ELSE 1

\* The signature of length len with pattern `seed`.
SigOf(len, seed) == [i \in 1..len |-> SigByte(seed, i)]

\* hmac::sign(&self.key, &counter.to_be_bytes())
sign(key, counter) ==
    SigOf(SigLen(key.alg), key.prf[ModU64(counter, Cardinality(Classes)) + 1])

(****************************** Hotp ***************************************)
\* Hotp::new: the engine made, or a panic of the debug assertion.
HotpNewResult(b, alg, secretLen, prf) ==
    IF b = "debug" /\ secretLen = 0
    THEN [panic |-> "debug_assert_ne secret.len() 0", key |-> None]
    ELSE [panic |-> "", key |-> [alg |-> alg, secretLen |-> secretLen, prf |-> prf]]

\* Mutant: the mask 31 in place of 15.
MutOffsetMask31(sig) == sig[Len(sig)] % 32

\* The low 4 bits of the last signature byte.
TruncOffset(sig) == sig[Len(sig)] % 16

\* The u32 read big-endian at `offset`, sign bit cleared.  A byte past the
\* signature's end (never read with offset + 4 <= len) is shown as 0.
ReadBe31(sig, offset) ==
    LET byte(k) == IF offset + k <= Len(sig) THEN sig[offset + k] ELSE 0
    IN  (byte(1) % 128) * 16777216 + byte(2) * 65536 + byte(3) * 256 + byte(4)

\* The body of generate_num once the signature and 10^digits are known.
Truncate(b, counter, digits, sig, pow) ==
    LET offset == TruncOffset(sig)
        base == [counter |-> counter, digits |-> digits, siglen |-> Len(sig),
                 offset |-> offset, snum |-> ReadBe31(sig, offset), pow |-> <<0, 0>>,
                 powCalled |-> FALSE, val |-> 0, panic |-> ""]
    IN  IF b = "debug" /\ ~(offset + 4 < Len(sig))
        THEN [base EXCEPT !.panic = "debug_assert offset + 4 < len"]
        ELSE IF b = "debug" /\ pow.over
        THEN [base EXCEPT !.powCalled = TRUE, !.panic = "attempt to multiply with overflow"]
        ELSE IF pow.val = <<0, 0>>
        THEN [base EXCEPT !.powCalled = TRUE, !.pow = pow.val,
                          !.panic = "remainder with a divisor of zero"]
        ELSE [base EXCEPT !.powCalled = TRUE, !.pow = pow.val,
                          !.val = RemU32(base.snum, pow.val)]

\* Hotp::generate_num(counter, digits), digits a u8.  One record per call:
\* what it read and computed, and the panic that ended it ("" = none).
generate_num(b, key, counter, digits) ==
    Truncate(b, counter, digits, sign(key, counter), Pow10(digits))

\* Mutant: "{}" in place of "{:0width$}", no padding.
MutFmtNoPadding(snum, width) == <<ToDec(snum)>>

\* What write!(buffer, "{:0width$}", snum, width = len) hands to write_str:
\* one "0" at a time for the padding, then the digits.
FmtChunks(snum, width) ==
    LET ds == ToDec(snum)
        pad == IF width > Len(ds) THEN width - Len(ds) ELSE 0
    IN  [i \in 1..pad |-> <<"0">>] \o <<ds>>

\* WriteBuffer::write_str.  w.pos is how far self.0 is past dest, w.rem is
\* self.1 (negative = wrapped below zero), w.oob counts bytes stored past
\* the end of the caller's buffer.
write_str(b, w, text) ==
    IF w.panic # "" THEN w
    ELSE IF b = "debug" /\ ~(Len(text) <= w.rem)
    THEN [w EXCEPT !.panic = "debug_assert written_len <= self.1"]
    ELSE [w EXCEPT
            !.buf = [i \in 1..Len(w.buf) |->
                        IF i > w.pos /\ i <= w.pos + Len(text) THEN text[i - w.pos] ELSE w.buf[i]],
            !.oob = w.oob + Cardinality({i \in 1..Len(text) : w.pos + i > Len(w.buf)}),
            !.pos = w.pos + Len(text),
            !.rem = w.rem - Len(text)]

RECURSIVE WriteAll(_, _, _)
WriteAll(b, w, chunks) ==
    IF chunks = <<>> THEN w ELSE WriteAll(b, write_str(b, w, Head(chunks)), Tail(chunks))

\* The end of generate_to_ptr: what the formatter left in the buffer.
Written(g, w) == [panic |-> w.panic, buf |-> w.buf, oob |-> w.oob, calls |-> <<g>>]

\* generate_to_ptr from the call of generate_num on.
WriteNum(b, dest, g) ==
    IF g.panic # ""
    THEN [panic |-> g.panic, buf |-> dest, oob |-> 0, calls |-> <<g>>]
    ELSE Written(g, WriteAll(b, [buf |-> dest, pos |-> 0, rem |-> Len(dest), oob |-> 0,
                                 panic |-> ""],
                             FmtChunks(g.val, Len(dest))))

\* Hotp::generate_to_ptr / generate_to on a caller's buffer `dest`.
generate_to(b, key, counter, dest) ==
    IF b = "debug" /\ Len(dest) = 0
    THEN [panic |-> "debug_assert_ne len 0", buf |-> dest, oob |-> 0, calls |-> <<>>]
    ELSE IF b = "debug" /\ ~(Len(dest) <= 255)
    THEN [panic |-> "debug_assert len <= u8::MAX", buf |-> dest, oob |-> 0, calls |-> <<>>]
    ELSE WriteNum(b, dest, generate_num(b, key, counter, Len(dest) % 256))

RECURSIVE ParseDigits(_, _)
ParseDigits(ds, acc) ==
    IF ds = <<>> THEN [ok |-> TRUE, val |-> acc]
    ELSE IF ~IsDigit(Head(ds)) THEN [ok |-> FALSE, val |-> <<0, 0>>]
    ELSE LET m == MulAdd10(acc, DigitVal(Head(ds)))
         IN  IF m.over THEN [ok |-> FALSE, val |-> <<0, 0>>] ELSE ParseDigits(Tail(ds), m.val)

\* u32::from_str_radix(token, 10)
from_str_radix(src) ==
    IF src = <<>> THEN [ok |-> FALSE, val |-> <<0, 0>>]
    ELSE IF Len(src) = 1 /\ Head(src) \in {"+", "-"} THEN [ok |-> FALSE, val |-> <<0, 0>>]
    ELSE IF Head(src) = "+" THEN ParseDigits(Tail(src), <<0, 0>>)
    ELSE ParseDigits(src, <<0, 0>>)

\* The comparison that ends a verify: generate_num(..) == expected.
Compare(g, expected) ==
    IF g.panic # "" THEN [panic |-> g.panic, res |-> FALSE, calls |-> <<g>>]
    ELSE [panic |-> "", res |-> Limbs(g.val) = expected, calls |-> <<g>>]

\* Hotp::verify from the parse on.
VerifyParsed(b, key, token, counter, expected) ==
    IF ~expected.ok THEN [panic |-> "", res |-> FALSE, calls |-> <<>>]
    ELSE Compare(generate_num(b, key, counter, Len(token) % 256), expected.val)

\* Hotp::verify(token, counter)
hotp_verify(b, key, token, counter) ==
    IF b = "debug" /\ ~(Len(token) <= 255)
    THEN [panic |-> "debug_assert token.len() <= u8::MAX", res |-> FALSE, calls |-> <<>>]
    ELSE VerifyParsed(b, key, token, counter, from_str_radix(token))

(****************************** TOTP ***************************************)
\* TOTP::new: inner = HOTP::new(algorithm, secret), skew = 1, window = 30.
TotpNewResult(b, alg, secretLen, prf) ==
    LET h == HotpNewResult(b, alg, secretLen, prf)
    IN  [panic |-> h.panic,
         totp |-> IF h.panic # "" THEN None ELSE [inner |-> h.key, skew |-> 1, window |-> 30]]

\* TOTP::generate_to(time, dest): inner.generate_to(time / window, dest)
totp_generate_to(b, t, time, dest) ==
    IF t.window = 0
    THEN [panic |-> "attempt to divide by zero", buf |-> dest, oob |-> 0, calls |-> <<>>]
    ELSE generate_to(b, t.inner, DivU64(time, t.window), dest)

RECURSIVE VerifyLoop(_, _, _, _, _, _, _)

\* The second check of one loop iteration: (time - time_offset) / window.
CheckPast(b, t, expected, digits, time, off, calls, g2) ==
    IF g2.panic # "" THEN [panic |-> g2.panic, res |-> FALSE, calls |-> Append(calls, g2)]
    ELSE IF Limbs(g2.val) = expected
    THEN [panic |-> "", res |-> TRUE, calls |-> Append(calls, g2)]
    ELSE VerifyLoop(b, t, expected, digits, time, off + 1, Append(calls, g2))

SubPast(b, t, expected, digits, time, off, calls, minus) ==
    IF b = "debug" /\ minus.over
    THEN [panic |-> "attempt to subtract with overflow", res |-> FALSE, calls |-> calls]
    ELSE CheckPast(b, t, expected, digits, time, off, calls,
                   generate_num(b, t.inner, DivU64(minus.val, t.window), digits))

\* The first check of one loop iteration: (time + time_offset) / window.
CheckFuture(b, t, expected, digits, time, off, calls, g1) ==
    IF g1.panic # "" THEN [panic |-> g1.panic, res |-> FALSE, calls |-> Append(calls, g1)]
    ELSE IF Limbs(g1.val) = expected
    THEN [panic |-> "", res |-> TRUE, calls |-> Append(calls, g1)]
    ELSE SubPast(b, t, expected, digits, time, off, Append(calls, g1), SubU64(time, off))

AddFuture(b, t, expected, digits, time, off, calls, plus) ==
    IF b = "debug" /\ plus.over
    THEN [panic |-> "attempt to add with overflow", res |-> FALSE, calls |-> calls]
    ELSE CheckFuture(b, t, expected, digits, time, off, calls,
                     generate_num(b, t.inner, DivU64(plus.val, t.window), digits))

\* Mutant: the range 1..skew in place of 1..=skew.
MutLoopExclusive(b, t, expected, digits, time, off, calls) ==
    IF off >= t.skew THEN [panic |-> "", res |-> FALSE, calls |-> calls]
    ELSE AddFuture(b, t, expected, digits, time, off, calls, AddU64(time, off))

\* The loop of TOTP::verify from time_offset = off on; `calls` are the
\* generate_num calls made so far.
VerifyLoop(b, t, expected, digits, time, off, calls) ==
    IF off > t.skew THEN [panic |-> "", res |-> FALSE, calls |-> calls]
    ELSE AddFuture(b, t, expected, digits, time, off, calls, AddU64(time, off))

\* The first check of TOTP::verify: time / window.
CheckNow(b, t, expected, digits, time, g0) ==
    IF g0.panic # "" THEN [panic |-> g0.panic, res |-> FALSE, calls |-> <<g0>>]
    ELSE IF Limbs(g0.val) = expected THEN [panic |-> "", res |-> TRUE, calls |-> <<g0>>]
    ELSE VerifyLoop(b, t, expected, digits, time, 1, <<g0>>)

\* TOTP::verify from the parse on.
TotpVerifyParsed(b, t, token, time, expected) ==
    IF ~expected.ok THEN [panic |-> "", res |-> FALSE, calls |-> <<>>]
    ELSE IF t.window = 0
    THEN [panic |-> "attempt to divide by zero", res |-> FALSE, calls |-> <<>>]
    ELSE CheckNow(b, t, expected.val, Len(token) % 256, time,
                  generate_num(b, t.inner, DivU64(time, t.window), Len(token) % 256))

\* TOTP::verify(token, time)
totp_verify(b, t, token, time) ==
    IF b = "debug" /\ ~(Len(token) <= 255)
    THEN [panic |-> "debug_assert token.len() <= u8::MAX", res |-> FALSE, calls |-> <<>>]
    ELSE TotpVerifyParsed(b, t, token, time, from_str_radix(token))

(****************************** inputs *************************************)
Counters == {U64(0), U64(1), U64(2), U64Max}
Times == {U64(0), U64(1), U64(29), U64(30), U64(45), U64(60), U64(91), U64Max}
Windows == {0, 1, 3, 30}
Skews == 0..MaxSkew
\* Secret lengths tried: the empty secret and a non-empty one.
SecretLens == {0, 1}
\* TOTP engines are made from a non-empty secret; the empty one is tried
\* on Hotp::new, which TOTP::new calls.
TotpSecretLens == {1}
Lens == 0..MaxLen

\* A caller's fresh buffer, [0u8; len].
Buffer(len) == [i \in 1..len |-> NUL]

\* The text a release build renders for `counter` at width d.
Rendered(key, counter, d) == generate_to("release", key, counter, Buffer(d)).buf

\* A token with its first byte replaced by a plus sign.
PlusForm(tok) == <<"+">> \o Tail(tok)

MalformedTokens ==
    { <<>>, <<"+">>, <<"-">>, <<"-", "1">>, <<"1", "a">>, <<"a">>, <<" ", "1">>,
      <<"4", "2", "9", "4", "9", "6", "7", "2", "9", "5">>,
      <<"4", "2", "9", "4", "9", "6", "7", "2", "9", "6">> }

\* The tokens a caller presents to an engine with this key.
Tokens(key) ==
    LET good == {Rendered(key, U64(c), d) : c \in Classes, d \in 1..MaxLen}
    IN  good \cup {PlusForm(tok) : tok \in {g \in good : Head(g) = "0"}} \cup MalformedTokens

(****************************** the state machine **************************)
\* `last` is the caller's view of the call in progress: Idle, or the call
\* just made with its arguments and everything it did.
Idle ==
    [op |-> "idle", panic |-> "", res |-> FALSE, arg |-> <<>>, token |-> <<>>,
     dest |-> <<>>, buf |-> <<>>, oob |-> 0, after |-> "returns", calls |-> <<>>,
     secretLen |-> 0]

\* A store past the end of the caller's buffer is undefined behaviour: the
\* call may return with the neighbouring memory overwritten, or crash.
AfterWrite(r) == IF r.oob > 0 THEN {"returns", "crashes"} ELSE {"returns"}

\* The caller's view of a generate_to call that ended as r.
Generated(op, arg, dest, r, after) ==
    [Idle EXCEPT !.op = op, !.panic = r.panic, !.arg = arg, !.dest = dest, !.buf = r.buf,
                 !.oob = r.oob, !.after = after, !.calls = r.calls]

\* The caller's view of a verify call that ended as r.
Verified(op, token, arg, r) ==
    [Idle EXCEPT !.op = op, !.panic = r.panic, !.res = r.res, !.arg = arg,
                 !.token = token, !.calls = r.calls]

Init ==
    /\ build \in Builds
    /\ hotp = None
    /\ totp = None
    /\ last = Idle

\* The caller takes the result (or catches the panic) and goes on.
Return ==
    /\ last.op # "idle"
    /\ last' = Idle
    /\ UNCHANGED <<build, hotp, totp>>

HotpNew ==
    /\ last.op = "idle"
    /\ \E alg \in Algorithms, n \in SecretLens, prf \in PRFs :
          LET r == HotpNewResult(build, alg, n, prf)
          IN  /\ hotp' = IF r.panic # "" THEN hotp ELSE r.key
              /\ last' = [Idle EXCEPT !.op = "hotp_new", !.panic = r.panic, !.secretLen = n]
    /\ UNCHANGED <<build, totp>>

HotpGenerateTo ==
    /\ last.op = "idle"
    /\ hotp # None
    /\ \E counter \in Counters, len \in Lens :
          \E after \in AfterWrite(generate_to(build, hotp, counter, Buffer(len))) :
             last' = Generated("hotp_generate_to", counter, Buffer(len),
                               generate_to(build, hotp, counter, Buffer(len)), after)
    /\ UNCHANGED <<build, hotp, totp>>

HotpVerify ==
    /\ last.op = "idle"
    /\ hotp # None
    /\ \E token \in Tokens(hotp), counter \in Counters :
          last' = Verified("hotp_verify", token, counter,
                           hotp_verify(build, hotp, token, counter))
    /\ UNCHANGED <<build, hotp, totp>>

TotpNew ==
    /\ last.op = "idle"
    /\ \E alg \in Algorithms, n \in TotpSecretLens, prf \in PRFs :
          LET r == TotpNewResult(build, alg, n, prf)
          IN  /\ totp' = IF r.panic # "" THEN totp ELSE r.totp
              /\ last' = [Idle EXCEPT !.op = "totp_new", !.panic = r.panic, !.secretLen = n]
    /\ UNCHANGED <<build, hotp>>

\* The caller assigns the public field `skew`.
SetSkew ==
    /\ last.op = "idle"
    /\ totp # None
    /\ \E s \in Skews : totp' = [totp EXCEPT !.skew = s]
    /\ UNCHANGED <<build, hotp, last>>

\* The caller assigns the public field `window`.
SetWindow ==
    /\ last.op = "idle"
    /\ totp # None
    /\ \E w \in Windows : totp' = [totp EXCEPT !.window = w]
    /\ UNCHANGED <<build, hotp, last>>

TotpGenerateTo ==
    /\ last.op = "idle"
    /\ totp # None
    /\ \E time \in Times, len \in Lens :
          \E after \in AfterWrite(totp_generate_to(build, totp, time, Buffer(len))) :
             last' = Generated("totp_generate_to", time, Buffer(len),
                               totp_generate_to(build, totp, time, Buffer(len)), after)
    /\ UNCHANGED <<build, hotp, totp>>

TotpVerify ==
    /\ last.op = "idle"
    /\ totp # None
    /\ \E token \in Tokens(totp.inner), time \in Times :
          last' = Verified("totp_verify", token, time,
                           totp_verify(build, totp, token, time))
    /\ UNCHANGED <<build, hotp, totp>>

NextHotp == HotpNew \/ HotpGenerateTo \/ HotpVerify \/ Return

NextTotp == TotpNew \/ SetSkew \/ SetWindow \/ TotpGenerateTo \/ TotpVerify \/ Return

SpecHotp == Init /\ [][NextHotp]_vars

SpecTotp == Init /\ [][NextTotp]_vars

(****************************** claims *************************************)
AllDigits(tok) == Len(tok) > 0 /\ \A i \in 1..Len(tok) : IsDigit(tok[i])

RECURSIVE DecValue(_, _)
\* The decimal value of a string of at most 9 digits.
DecValue(tok, acc) ==
    IF tok = <<>> THEN acc ELSE DecValue(Tail(tok), acc * 10 + DigitVal(Head(tok)))

Call == IF last.calls = <<>> THEN None ELSE last.calls[1]

\* Counter(time) = floor(time / step)
Counter(time) == DivU64(time, totp.window)

\* Counters c1 and c2 are at most k steps apart.
StepsApart(c1, c2, k) ==
    \E j \in 0..k :
        \/ ~AddU64(c1, j).over /\ AddU64(c1, j).val = c2
        \/ ~SubU64(c1, j).over /\ SubU64(c1, j).val = c2

\* The times at most k seconds from t that a u64 can hold.
SecondsAround(t, k) ==
    {AddU64(t, j).val : j \in {i \in 0..k : ~AddU64(t, i).over}}
        \cup {SubU64(t, j).val : j \in {i \in 0..k : ~SubU64(t, i).over}}

\* The counters at most k steps from c that a u64 can hold.
StepsAround(c, k) == SecondsAround(c, k)

\* DeriveNumber(counter, digits) of the specification: the truncated
\* signature value modulo 10^digits, in unbounded arithmetic (the value is
\* below 2^31 < 10^10).
DeriveNumber(key, counter, digits) ==
    LET snum == ReadBe31(sign(key, counter), TruncOffset(sign(key, counter)))
    IN  IF digits >= 10 THEN snum ELSE snum % (10 ^ digits)

\* The text of n at width d, left-padded with '0'.
ZeroPadded(n, d) ==
    [i \in 1..(IF d > Len(ToDec(n)) THEN d - Len(ToDec(n)) ELSE 0) |-> "0"] \o ToDec(n)

\* tok is all digits and its decimal value is DeriveNumber(counter, length(tok)).
TokenMatches(key, tok, counter) ==
    AllDigits(tok) /\ tok = ZeroPadded(DeriveNumber(key, counter, Len(tok)), Len(tok))

RECURSIVE StripZeros(_)
StripZeros(tok) ==
    IF tok # <<>> /\ Head(tok) = "0" THEN StripZeros(Tail(tok)) ELSE tok

RECURSIVE DigitsGreater(_, _)
\* a > b for digit strings of one length.
DigitsGreater(a, b) ==
    IF a = <<>> THEN FALSE
    ELSE IF DigitVal(Head(a)) > DigitVal(Head(b)) THEN TRUE
    ELSE IF DigitVal(Head(a)) < DigitVal(Head(b)) THEN FALSE
    ELSE DigitsGreater(Tail(a), Tail(b))

U32MaxText == <<"4", "2", "9", "4", "9", "6", "7", "2", "9", "5">>

\* A token the specification calls malformed: empty, holding a byte that
\* is no decimal digit, or with a value above 2^32 - 1.
Malformed(tok) ==
    \/ tok = <<>>
    \/ \E i \in 1..Len(tok) : ~IsDigit(tok[i])
    \/ Len(StripZeros(tok)) > 10
    \/ Len(StripZeros(tok)) = 10 /\ DigitsGreater(StripZeros(tok), U32MaxText)

\* C6: generate_to on a buffer of 1..9 bytes never panics, stores nothing
\* past the buffer, fills every byte of it with an ASCII digit, and the
\* digits read as the number generate_num derived, which is the truncated
\* signature value modulo 10^digits (so the text is left-padded with '0').
ThmC6_RenderWidth ==
    (last.op = "hotp_generate_to" /\ Len(last.dest) \in 1..9) =>
        /\ last.panic = ""
        /\ last.oob = 0
        /\ Len(last.buf) = Len(last.dest)
        /\ AllDigits(last.buf)
        /\ Len(last.calls) = 1
        /\ Call.digits = Len(last.dest)
        /\ DecValue(last.buf, 0) = Call.val
        /\ Call.val = Call.snum % (10 ^ Len(last.dest))

\* C6 witness: a 9-byte buffer rendered with leading zeros before a
\* non-zero digit.
WitC6_Padded ==
    /\ last.op = "hotp_generate_to"
    /\ Len(last.dest) = 9
    /\ last.panic = ""
    /\ last.buf[1] = "0"
    /\ last.buf[9] # "0"

\* C10: in every call of generate_num the offset is below 16 and
\* offset + 4 < len(signature), so the four bytes read lie inside the
\* signature; the value read is below 2^31; and for digits in 1..9 the
\* result lies in [0, 10^digits).
ThmC10_TruncationBounds ==
    \A i \in 1..Len(last.calls) :
        LET g == last.calls[i]
        IN  /\ g.siglen \in {20, 32, 64}
            /\ g.offset \in 0..15
            /\ g.offset + 4 < g.siglen
            /\ g.snum >= 0 /\ g.snum <= 2147483647
            /\ g.digits \in 1..9 => (g.panic = "" /\ g.val >= 0 /\ g.val < 10 ^ g.digits)

\* C10 witness: a call on a 20-byte signature whose offset is the largest
\* possible, 15, and whose value is the largest possible, 2^31 - 1.
WitC10_LargestOffset ==
    /\ last.op = "hotp_generate_to"
    /\ last.calls # <<>>
    /\ Call.siglen = 20
    /\ Call.offset = 15
    /\ Call.snum = 2147483647
    /\ Call.digits = 9
    /\ Call.panic = ""

(* ---- TOTP::verify ---- *)
AddOverflow == "attempt to add with overflow"
SubOverflow == "attempt to subtract with overflow"

\* A verify call on an engine with a non-empty secret and step > 0.
ValidTotpVerify ==
    last.op = "totp_verify" /\ totp.inner.secretLen > 0 /\ totp.window > 0

\* Neither time - skew nor time + skew leaves the u64 range.
TimeInRange == ~SubU64(last.arg, totp.skew).over /\ ~AddU64(last.arg, totp.skew).over

OrigC2_Soundness ==
    ( /\ ValidTotpVerify
      /\ \A c \in StepsAround(Counter(last.arg), totp.skew) :
             ~TokenMatches(totp.inner, last.token, c) )
    => (last.panic = "" /\ ~last.res)

\* C3 as stated: when time is smaller than what a past window subtracts,
\* verify neither panics nor checks a counter of a wrapped time: every
\* counter it checks is at most Counter(time + skew).
OrigC3_NoUnderflow ==
    ( /\ ValidTotpVerify
      /\ SubU64(last.arg, totp.skew).over
      /\ ~AddU64(last.arg, totp.skew).over )
    => /\ last.panic # SubOverflow
       /\ \A i \in 1..Len(last.calls) :
              LeU64(last.calls[i].counter, Counter(AddU64(last.arg, totp.skew).val))

\* C9 as stated: every TOTP engine has step > 0 and no call divides by zero.
OrigC9_StepPositive ==
    /\ totp # None => totp.window > 0
    /\ last.panic # "attempt to divide by zero"

(* ---- Hotp::verify, digit counts, construction ---- *)
\* A call on a Hotp engine with a non-empty secret.
ValidHotp(op) == last.op = op /\ hotp.secretLen > 0

\* C4 as stated: Hotp::verify(token, counter) returns, and returns true
\* exactly when the token is a decimal number equal to
\* DeriveNumber(counter, length(token)).
OrigC4_VerifyIff ==
    ValidHotp("hotp_verify") =>
        /\ last.panic = ""
        /\ last.res <=> TokenMatches(hotp, last.token, last.arg)

\* C5 as stated: for a malformed token (empty, a byte that is no digit,
\* or a value above 2^32 - 1) verify returns false without panicking and
\* without calling generate_num.
OrigC5_MalformedRejected ==
    (ValidHotp("hotp_verify") /\ Malformed(last.token)) =>
        (last.panic = "" /\ ~last.res /\ last.calls = <<>>)

\* C7 as stated: no call computes 10^digits with digits outside 1..9, and
\* no byte is stored outside the caller's buffer.
OrigC7_DigitRange ==
    (ValidHotp("hotp_generate_to") \/ ValidHotp("hotp_verify")) =>
        /\ \A i \in 1..Len(last.calls) :
               last.calls[i].powCalled => last.calls[i].digits \in 1..9
        /\ last.oob = 0

\* C8 as stated: construction with an empty secret is rejected in every
\* build, and no engine holds an empty key.
OrigC8_EmptySecretRejected ==
    /\ (last.op = "hotp_new" /\ last.secretLen = 0) => last.panic # ""
    /\ hotp # None => hotp.secretLen > 0

====
